---- MODULE Spec2Model ----
(***************************************************************************)
(* The four-stage investment planning workflow of investment_agent:        *)
(* step_1_research_companies -> step_2_build_portfolio ->                  *)
(* step_3_generate_rationale -> step_4_format_final_report, each a loop of *)
(* at most _MAX_LLM_RETRIES generation calls, composed by the langgraph    *)
(* StateGraph `workflow`.  One action per atomic piece of a coroutine      *)
(* (the code between two awaits).                                          *)
(***************************************************************************)
EXTENDS Integers, Sequences, FiniteSets, TLC

\* ------------------------------------------------------------------------
\* Bounds of the model
\* ------------------------------------------------------------------------
\* longest companies list a structured research response carries
MaxResearch == 6
\* longest companies list a structured portfolio response carries
MaxPortfolio == 2

\* ------------------------------------------------------------------------
\* Program constants
\* ------------------------------------------------------------------------
\* _MAX_LLM_RETRIES
MAX_LLM_RETRIES == 3

\* research_results[:5]
FALLBACK_SLICE == 5

\* Python's None / an optional value: <<>> is None, <<v>> is the value v
None == <<>>
Some(v) == <<v>>
IsNone(o) == o = <<>>
Val(o) == o[1]

Min(a, b) == IF a <= b THEN a ELSE b

\* ------------------------------------------------------------------------
\* IEEE-754 binary64 values, as far as the workflow computes with them.
\* A double is [hi, lo, exp] with value (hi * 2^27 + lo) * 2^exp, where
\* hi * 2^27 + lo is the 53-bit significand (hi carries the top 26 bits).
\* ------------------------------------------------------------------------
LimbLo == 2 ^ 27
LimbHi == 2 ^ 26

RECURSIVE Log2Floor(_, _)
\* largest e with b * 2^e <= a   (a >= b >= 1)
Log2Floor(a, b) == IF 2 * b > a THEN 0 ELSE 1 + Log2Floor(a, 2 * b)

RECURSIVE DivBits(_, _, _, _)
\* n more quotient bits of r / b by long division, appended to the limb
\* value acc; the result is <<acc, remainder>>
DivBits(acc, r, b, n) ==
    IF n = 0 THEN <<acc, r>>
    ELSE DivBits(2 * acc + ((2 * r) \div b), (2 * r) % b, b, n - 1)

\* the float division a / b of two positive integers a >= b, rounded to
\* nearest, ties to even
FloatDiv(a, b) ==
    LET e    == Log2Floor(a, b)
        \* the top 26 bits: e+1 integer bits and 25-e fraction bits
        top  == DivBits(a \div b, a % b, b, 25 - e)
        low  == DivBits(0, top[2], b, 27)
        r    == low[2]
        up   == (2 * r > b) \/ (2 * r = b /\ low[1] % 2 = 1)
        lo1  == IF up THEN low[1] + 1 ELSE low[1]
        hi1  == IF lo1 = LimbLo THEN top[1] + 1 ELSE top[1]
    IN  IF hi1 = LimbHi
        THEN [hi |-> LimbHi \div 2, lo |-> 0, exp |-> e - 51]
        ELSE [hi |-> hi1, lo |-> lo1 % LimbLo, exp |-> e - 52]

\* the double of a float literal with an integral value, e.g. 100.0
Double(n) == FloatDiv(n, 1)

\* d * k = n in exact (real) arithmetic, for small positive integers k, n
ExactlyTimes(d, k, n) ==
    LET pl == d.lo * k
        H  == d.hi * k + (pl \div LimbLo)
        L  == pl % LimbLo
    IN  /\ L = 0
        /\ d.exp <= -27
        /\ H = n * 2 ^ (-(d.exp) - 27)

\* ------------------------------------------------------------------------
\* Text.  A Python str is a sequence of chunks; "" is the empty sequence.
\* A chunk is a record whose field k names its kind: "ws" is whitespace,
\* the others are non-blank pieces of an f-string template together with
\* the values interpolated into them.
\* ------------------------------------------------------------------------
WS == [k |-> "ws"]
Lit(s) == [k |-> "lit", s |-> s]

\* bool(str): the empty string is falsy
Truthy(text) == Len(text) > 0

RECURSIVE LStrip(_)
LStrip(text) ==
    IF text = <<>> THEN <<>>
    ELSE IF Head(text) = WS THEN LStrip(Tail(text)) ELSE text

RECURSIVE RStrip(_)
RStrip(text) ==
    IF text = <<>> THEN <<>>
    ELSE IF text[Len(text)] = WS THEN RStrip(SubSeq(text, 1, Len(text) - 1))
         ELSE text

\* str.strip()
Strip(text) == RStrip(LStrip(text))

\* str.lower() on the risk tiers
Lower(s) ==
    CASE s = "Low" -> "low"
      [] s = "Medium" -> "medium"
      [] s = "High" -> "high"
      [] OTHER -> s

\* f"{x:,.2f}" of a float: the formatted text is a function of the float
Money(x) == [fmt |-> ",.2f", of |-> x]

\* (allocation / 100) * investment_amount, kept as its two operands
AmountOf(allocation, investment_amount) ==
    [pct |-> allocation, principal |-> investment_amount]

\* ------------------------------------------------------------------------
\* What the external capabilities can answer
\* ------------------------------------------------------------------------
\* CompanyResearch values a structured research response is made of
ResearchPool ==
    << [name |-> "Apple Inc.", risk_factor |-> "Low",
        explanation |-> "Stable tech giant"],
       [name |-> "Microsoft Corporation", risk_factor |-> "Low",
        explanation |-> "Cloud leader"],
       [name |-> "NVIDIA Corporation", risk_factor |-> "Medium",
        explanation |-> "AI growth"],
       \* `name: str` and `explanation: str` accept the empty string
       [name |-> "", risk_factor |-> "High", explanation |-> ""] >>

\* PortfolioAllocation values a structured portfolio response is made of;
\* the second names a company the research never returns and leaves
\* holding_period at its default None
AllocationPool ==
    << [company_name |-> "Apple Inc.",
        allocation_percentage |-> Double(60),
        holding_period |-> Some("1-2 years")],
       [company_name |-> "Tesla Inc.",
        allocation_percentage |-> Double(30),
        holding_period |-> None] >>

\* total_allocation values of a structured portfolio response
TotalPool == << Double(100), Double(90) >>

\* the list of length n that cycles through pool, starting after s entries
Cycle(pool, n, s) == [i \in 1..n |-> pool[((i - 1 + s) % Len(pool)) + 1]]

\* the exceptions model.ainvoke raises
Exceptions ==
    { [kind |-> "exception", exc |-> "TransientError"],
      [kind |-> "exception", exc |-> "MalformedOutput"] }

\* a response that is None or has no companies / content to read
Unusable == [kind |-> "unusable"]

\* outcomes of with_structured_output(CompanyResearchList).ainvoke
ResearchOutcomes ==
    Exceptions \cup {Unusable} \cup
    { [kind |-> "structured", companies |-> Cycle(ResearchPool, n, s)] :
        n \in 0..MaxResearch, s \in 0..(Len(ResearchPool) - 1) }

\* outcomes of with_structured_output(PortfolioPlan).ainvoke
PortfolioOutcomes ==
    Exceptions \cup {Unusable} \cup
    { [kind |-> "structured", companies |-> Cycle(AllocationPool, n, s),
       total_allocation |-> TotalPool[s + 1]] :
        n \in 0..MaxPortfolio, s \in 0..(Len(AllocationPool) - 1) }

\* outcomes of the unstructured _get_llm().ainvoke: an exception, no
\* response, or a message whose content is "", " " or a text
MessageOutcomes ==
    Exceptions \cup {Unusable} \cup
    { [kind |-> "message", content |-> c] :
        c \in { <<>>, <<WS>>, <<Lit("generated text")>> } }

NoOutcome == [kind |-> "not called"]

\* the requests create_investment_plan is called with
Requests ==
    { [risk_level |-> "Medium", industry |-> i,
       investment_amount |-> Double(100000), time_horizon |-> "1 year"] :
        i \in { None, Some("Big tech") } }

\* ------------------------------------------------------------------------
\* The stages' acceptance tests and result values
\* ------------------------------------------------------------------------
\* response and hasattr(response, "companies") and len(response.companies) > 0
HasCompanies(o) == o.kind = "structured" /\ Len(o.companies) > 0

\* response and hasattr(response, "companies") and len(response.companies) == 0
HasNoCompanies(o) == o.kind = "structured" /\ Len(o.companies) = 0

\* response and response.content
HasContent(o) == o.kind = "message" /\ Truthy(o.content)

\* the list of dicts built back to front
ResearchDicts_Reversed(companies) ==
    [i \in 1..Len(companies) |->
        [name |-> companies[Len(companies) + 1 - i].name,
         risk_factor |-> companies[Len(companies) + 1 - i].risk_factor,
         explanation |-> companies[Len(companies) + 1 - i].explanation]]

\* the list of dicts step 1 stores
ResearchDicts(companies) ==
    [i \in 1..Len(companies) |->
        [name |-> companies[i].name,
         risk_factor |-> companies[i].risk_factor,
         explanation |-> companies[i].explanation]]

\* the dict of a plan whose total is set to 100 whatever was reported
PortfolioDict_Reconciled(o) ==
    [companies |->
        [i \in 1..Len(o.companies) |->
            [company_name |-> o.companies[i].company_name,
             allocation_percentage |-> o.companies[i].allocation_percentage,
             holding_period |-> o.companies[i].holding_period]],
     total_allocation |-> Double(100)]

\* the dict step 2 stores for an accepted PortfolioPlan
PortfolioDict(o) ==
    [companies |->
        [i \in 1..Len(o.companies) |->
            [company_name |-> o.companies[i].company_name,
             allocation_percentage |-> o.companies[i].allocation_percentage,
             holding_period |-> o.companies[i].holding_period]],
     total_allocation |-> o.total_allocation]

\* state.research_results without the [:5]
FirstFive_NoSlice(research_results) == research_results

\* state.research_results[:5]
FirstFive(research_results) ==
    SubSeq(research_results, 1, Min(FALLBACK_SLICE, Len(research_results)))

\* the empty-portfolio branch naming its companies by a placeholder
EmptyPortfolioFallback_Placeholder(research_results) ==
    LET companies_to_allocate == FirstFive(research_results)
        allocation_per_company ==
            FloatDiv(100, Len(companies_to_allocate))
    IN  [companies |->
            [i \in 1..Len(companies_to_allocate) |->
                [company_name |-> "Company",
                 allocation_percentage |-> allocation_per_company,
                 holding_period |-> Some("6-12 months")]],
         total_allocation |-> Double(100)]

\* the fallback allocation of the empty-portfolio branch
EmptyPortfolioFallback(research_results) ==
    LET companies_to_allocate == FirstFive(research_results)
        allocation_per_company ==
            FloatDiv(100, Len(companies_to_allocate))
    IN  [companies |->
            [i \in 1..Len(companies_to_allocate) |->
                [company_name |-> companies_to_allocate[i].name,
                 allocation_percentage |-> allocation_per_company,
                 holding_period |-> Some("6-12 months")]],
         total_allocation |-> Double(100)]

\* the handler's copy of the fallback dividing by len(state.research_results)
EmergencyPortfolioFallback_AllResearch(research_results) ==
    LET companies_to_allocate == FirstFive(research_results)
        allocation_per_company == FloatDiv(100, Len(research_results))
    IN  [companies |->
            [i \in 1..Len(companies_to_allocate) |->
                [company_name |-> companies_to_allocate[i].name,
                 allocation_percentage |-> allocation_per_company,
                 holding_period |-> Some("6-12 months")]],
         total_allocation |-> Double(100)]

\* the fallback allocation of the last-attempt exception handler
EmergencyPortfolioFallback(research_results) ==
    LET companies_to_allocate == FirstFive(research_results)
        allocation_per_company ==
            FloatDiv(100, Len(companies_to_allocate))
    IN  [companies |->
            [i \in 1..Len(companies_to_allocate) |->
                [company_name |-> companies_to_allocate[i].name,
                 allocation_percentage |-> allocation_per_company,
                 holding_period |-> Some("6-12 months")]],
         total_allocation |-> Double(100)]

\* next((c for c in state.research_results if c["name"] == company_name), None)
RECURSIVE FindResearch(_, _)
FindResearch(research_results, company_name) ==
    IF research_results = <<>> THEN None
    ELSE IF Head(research_results).name = company_name
         THEN Some(Head(research_results))
         ELSE FindResearch(Tail(research_results), company_name)

\* the sections the step 3 fallback appends, one portfolio company at a time
RECURSIVE RationaleSections(_, _)
RationaleSections(companies, research_results) ==
    IF companies = <<>> THEN <<>>
    ELSE LET company == Head(companies)
             research_data == FindResearch(research_results, company.company_name)
             rest == RationaleSections(Tail(companies), research_results)
         IN  IF IsNone(research_data) THEN rest
             ELSE << WS,
                     [k |-> "section", company_name |-> company.company_name,
                      allocation |-> company.allocation_percentage,
                      explanation |-> Val(research_data).explanation],
                     WS >> \o rest

\* the step 3 fallback rationale
FallbackRationale(request, research_results, portfolio_plan) ==
    Strip(<< WS,
             [k |-> "rationale intro",
              risk_level |-> Lower(request.risk_level),
              amount |-> Money(request.investment_amount),
              time_horizon |-> request.time_horizon],
             WS >>
          \o RationaleSections(portfolio_plan.companies, research_results))

\* the table rows the step 4 fallback appends
RECURSIVE ReportRows(_, _, _)
ReportRows(companies, research_results, request) ==
    IF companies = <<>> THEN <<>>
    ELSE LET company == Head(companies)
             allocation == company.allocation_percentage
             research_data == FindResearch(research_results, company.company_name)
             risk_level == IF IsNone(research_data) THEN "Medium"
                           ELSE Val(research_data).risk_factor
         IN  << [k |-> "row", company_name |-> company.company_name,
                 allocation |-> allocation,
                 amount |-> Money(AmountOf(allocation, request.investment_amount)),
                 \* company.get("holding_period", "6-12 months"): the
                 \* default serves only a dict without the key
                 holding_period |->
                    IF "holding_period" \in DOMAIN company
                    THEN company.holding_period
                    ELSE Some("6-12 months"),
                 risk_level |-> risk_level],
                WS >>
             \o ReportRows(Tail(companies), research_results, request)

\* the report looking research entries up from the end of the list
FallbackReport_SearchesBackwards(request, research_results, portfolio_plan, investment_rationale) ==
    Strip(<< WS,
             [k |-> "report intro",
              risk_level |-> Lower(request.risk_level),
              amount |-> Money(request.investment_amount),
              time_horizon |-> request.time_horizon],
             WS, Lit("table header"), WS >>
          \o ReportRows(portfolio_plan.companies,
                        [i \in 1..Len(research_results) |->
                            research_results[Len(research_results) + 1 - i]],
                        request)
          \o << WS, Lit("## Investment Rationale"), WS >>
          \o investment_rationale
          \o << WS,
                [k |-> "risk considerations",
                 risk_level |-> Lower(request.risk_level)],
                WS >>)

\* the report quoting only the opening of the rationale
FallbackReport_Excerpt(request, research_results, portfolio_plan, investment_rationale) ==
    Strip(<< WS,
             [k |-> "report intro",
              risk_level |-> Lower(request.risk_level),
              amount |-> Money(request.investment_amount),
              time_horizon |-> request.time_horizon],
             WS, Lit("table header"), WS >>
          \o ReportRows(portfolio_plan.companies, research_results, request)
          \o << WS, Lit("## Investment Rationale"), WS >>
          \o SubSeq(investment_rationale, 1, 1)
          \o << WS,
                [k |-> "risk considerations",
                 risk_level |-> Lower(request.risk_level)],
                WS >>)

\* the step 4 fallback report
FallbackReport(request, research_results, portfolio_plan, investment_rationale) ==
    Strip(<< WS,
             [k |-> "report intro",
              risk_level |-> Lower(request.risk_level),
              amount |-> Money(request.investment_amount),
              time_horizon |-> request.time_horizon],
             WS, Lit("table header"), WS >>
          \o ReportRows(portfolio_plan.companies, research_results, request)
          \o << WS, Lit("## Investment Rationale"), WS >>
          \o investment_rationale
          \o << WS,
                [k |-> "risk considerations",
                 risk_level |-> Lower(request.risk_level)],
                WS >>)

\* ------------------------------------------------------------------------
\* What a stage does with the outcome of generation attempt `count`
\* (count = 0, 1, 2 is the loop variable of `for count in range(...)`):
\* [do |-> "return", value, fallback], [do |-> "retry"] (the loop goes on
\* to the next attempt) or [do |-> "raise"] (the loop ran out and the
\* RuntimeError after it is raised).
\* ------------------------------------------------------------------------
Return(v, fb) == [do |-> "return", value |-> v, fallback |-> fb]

\* range(_MAX_LLM_RETRIES + 1)
NextIteration_OneMore(count) ==
    IF count + 1 < MAX_LLM_RETRIES + 1 THEN [do |-> "retry"] ELSE [do |-> "raise"]

\* falling through to the end of the loop body
NextIteration(count) ==
    IF count + 1 < MAX_LLM_RETRIES THEN [do |-> "retry"] ELSE [do |-> "raise"]

\* step 1 with a last-attempt handler that returns an empty research list
Step1Outcome_Fallback(count, o) ==
    IF o.kind = "exception"
    THEN IF count = MAX_LLM_RETRIES - 1 THEN Return(<<>>, TRUE)
         ELSE NextIteration(count)
    ELSE IF HasCompanies(o) THEN Return(ResearchDicts(o.companies), FALSE)
    ELSE NextIteration(count)

\* step 1 testing only hasattr(response, "companies")
Step1Outcome_AcceptsEmpty(count, o) ==
    IF o.kind = "exception" THEN NextIteration(count)
    ELSE IF o.kind = "structured"
         THEN Return(ResearchDicts(o.companies), FALSE)
    ELSE NextIteration(count)

Step1Outcome(count, o) ==
    IF o.kind = "exception" THEN NextIteration(count)
    ELSE IF HasCompanies(o) THEN Return(ResearchDicts(o.companies), FALSE)
    ELSE NextIteration(count)

\* step 2 without the empty-portfolio branch: an empty plan is retried
Step2Outcome_RetryOnEmpty(count, o, research_results) ==
    IF o.kind = "exception"
    THEN IF count = MAX_LLM_RETRIES - 1
         THEN Return(EmergencyPortfolioFallback(research_results), TRUE)
         ELSE NextIteration(count)
    ELSE IF HasCompanies(o) THEN Return(PortfolioDict(o), FALSE)
    ELSE NextIteration(count)

Step2Outcome(count, o, research_results) ==
    IF o.kind = "exception"
    THEN IF count = MAX_LLM_RETRIES - 1
         THEN Return(EmergencyPortfolioFallback(research_results), TRUE)
         ELSE NextIteration(count)
    ELSE IF HasCompanies(o) THEN Return(PortfolioDict(o), FALSE)
    ELSE IF HasNoCompanies(o)
         THEN Return(EmptyPortfolioFallback(research_results), TRUE)
    ELSE NextIteration(count)

\* `for c in state.research_results` inside the fallbacks of steps 3 and 4
\* is reached once per portfolio company and raises on None
LookupRaises(research_results, portfolio_plan) ==
    IsNone(research_results) /\ Len(portfolio_plan.companies) > 0

TypeError == [do |-> "raise", exc |-> "TypeError: 'NoneType' object is not iterable"]

\* the list a present research_results holds
ListOf(research_results) ==
    IF IsNone(research_results) THEN <<>> ELSE Val(research_results)

\* company_research_prompt.format(...) of step 1; the search text is
\* headed by the query it answers
CompanyResearchPrompt(request, search_query) ==
    [template |-> "company_research_prompt",
     industry |-> IF IsNone(request.industry) THEN "technology"
                  ELSE Val(request.industry),
     risk_level |-> request.risk_level,
     time_horizon |-> request.time_horizon,
     search_results |-> [results_for |-> search_query]]

\* portfolio_planning_prompt.format(...) of step 2
PortfolioPlanningPrompt(request, research_results) ==
    [template |-> "portfolio_planning_prompt",
     companies |->
        [i \in 1..Len(research_results) |->
            [name |-> research_results[i].name,
             explanation |-> research_results[i].explanation,
             risk |-> research_results[i].risk_factor]],
     risk_level |-> request.risk_level,
     investment_amount |-> request.investment_amount,
     time_horizon |-> request.time_horizon]

\* investment_rationale_prompt.format(...) of step 3; research_results is
\* the state's field, read as `state.research_results or []`
InvestmentRationalePrompt(request, research_results, portfolio_plan) ==
    [template |-> "investment_rationale_prompt",
     portfolio_plan |->
        [i \in 1..Len(portfolio_plan.companies) |->
            [company_name |-> portfolio_plan.companies[i].company_name,
             allocation |-> portfolio_plan.companies[i].allocation_percentage]],
     research_results |->
        [i \in 1..Len(ListOf(research_results)) |->
            [name |-> ListOf(research_results)[i].name,
             explanation |-> ListOf(research_results)[i].explanation,
             risk |-> ListOf(research_results)[i].risk_factor]],
     risk_level |-> request.risk_level,
     industry |-> IF IsNone(request.industry) THEN "technology"
                  ELSE Val(request.industry),
     time_horizon |-> request.time_horizon]

\* final_report_prompt.format(...) of step 4
FinalReportPrompt(request, portfolio_plan, investment_rationale) ==
    [template |-> "final_report_prompt",
     risk_level |-> request.risk_level,
     industry |-> IF IsNone(request.industry) THEN "technology"
                  ELSE Val(request.industry),
     investment_amount |-> request.investment_amount,
     time_horizon |-> request.time_horizon,
     portfolio_plan |->
        [total_allocation |-> portfolio_plan.total_allocation,
         lines |->
            [i \in 1..Len(portfolio_plan.companies) |->
                [company_name |-> portfolio_plan.companies[i].company_name,
                 allocation |-> portfolio_plan.companies[i].allocation_percentage,
                 amount |-> Money(AmountOf(
                                portfolio_plan.companies[i].allocation_percentage,
                                request.investment_amount))]]],
     investment_rationale |-> investment_rationale]

\* step 3 building its fallback on the first exception
Step3Outcome_FallbackOnAnyException(count, o, request, research_results, portfolio_plan) ==
    IF o.kind = "exception"
    THEN IF LookupRaises(research_results, portfolio_plan) THEN TypeError
         ELSE Return(FallbackRationale(request, ListOf(research_results),
                                       portfolio_plan), TRUE)
    ELSE IF HasContent(o) THEN Return(o.content, FALSE)
    ELSE NextIteration(count)

\* research_results is the state's field here: None or a list
Step3Outcome(count, o, request, research_results, portfolio_plan) ==
    IF o.kind = "exception"
    THEN IF count = MAX_LLM_RETRIES - 1
         THEN IF LookupRaises(research_results, portfolio_plan) THEN TypeError
              ELSE Return(FallbackRationale(request, ListOf(research_results),
                                            portfolio_plan), TRUE)
         ELSE NextIteration(count)
    ELSE IF HasContent(o) THEN Return(o.content, FALSE)
    ELSE NextIteration(count)

\* step 4 that renders its template whatever the model answered
Step4Outcome_AlwaysTemplate(count, o, request, research_results, portfolio_plan, investment_rationale) ==
    IF o.kind = "exception" /\ count < MAX_LLM_RETRIES - 1
    THEN NextIteration(count)
    ELSE IF o.kind = "exception" \/ HasContent(o)
         THEN Return(FallbackReport(request, ListOf(research_results),
                                    portfolio_plan, investment_rationale), TRUE)
    ELSE NextIteration(count)

Step4Outcome(count, o, request, research_results, portfolio_plan, investment_rationale) ==
    IF o.kind = "exception"
    THEN IF count = MAX_LLM_RETRIES - 1
         THEN IF LookupRaises(research_results, portfolio_plan) THEN TypeError
              ELSE Return(FallbackReport(request, ListOf(research_results),
                                         portfolio_plan, investment_rationale),
                          TRUE)
         ELSE NextIteration(count)
    ELSE IF HasContent(o) THEN Return(o.content, FALSE)
    ELSE NextIteration(count)

\* ------------------------------------------------------------------------
\* The workflow graph
\* ------------------------------------------------------------------------
START == "__start__"
END == "__end__"
STEP_1 == "step_1_research_companies"
STEP_2 == "step_2_build_portfolio"
STEP_3 == "step_3_generate_rationale"
STEP_4 == "step_4_format_final_report"

Stages == 1..4

\* the edges with steps 2 and 3 exchanged
Edge_Swapped(a) ==
    CASE a = START  -> STEP_1
      [] a = STEP_1 -> STEP_3
      [] a = STEP_3 -> STEP_2
      [] a = STEP_2 -> STEP_4
      [] a = STEP_4 -> END

\* the edges with step 3 wired to END
Edge_SkipsReport(a) ==
    CASE a = START  -> STEP_1
      [] a = STEP_1 -> STEP_2
      [] a = STEP_2 -> STEP_3
      [] a = STEP_3 -> END
      [] a = STEP_4 -> END

\* workflow.add_edge(a, b)
Edge(a) ==
    CASE a = START  -> STEP_1
      [] a = STEP_1 -> STEP_2
      [] a = STEP_2 -> STEP_3
      [] a = STEP_3 -> STEP_4
      [] a = STEP_4 -> END

\* ------------------------------------------------------------------------
\* State
\* ------------------------------------------------------------------------
VARIABLES
    \* InvestmentAgentState
    request,               \* risk_level, industry, investment_amount, time_horizon
    research_results,      \* None or the list of research dicts
    portfolio_plan,        \* None or the portfolio dict
    investment_rationale,  \* None or a text
    investment_plan,       \* None or a text
    \* control
    node,          \* the graph node that runs, or runs next
    pc,            \* where its coroutine is: "entry", "search", "llm", "done"
    count,         \* the loop variable of the running stage
    run,           \* graph.ainvoke: "running", "returned" or "raised"
    error,         \* None or the message of the exception that ended the run
    direct,        \* TRUE when a stage function is called directly on a
                   \* hand-built state instead of through graph.ainvoke
    search_query,  \* None or the industry step 1 put into its search query
    system_prompt, \* None or the prompt the running stage built
    calls,         \* the model.ainvoke calls of the current stage invocation:
                   \* the prompt each was given and whether it was answered
    \* history of the current stage invocation
    genCalls,      \* model.ainvoke calls made
    fallbackRuns,  \* times a fallback value was built
    lastOutcome,   \* outcome of the latest model.ainvoke
    \* history of the run
    totalGenCalls, \* model.ainvoke calls made by all stages
    searchCalls,   \* tools.search_companies calls made
    started,       \* stages that were entered
    completed,     \* stages that returned
    accepted,      \* per stage, None or the response it accepted as success
    fallbackUsed,  \* stages that returned a fallback value
    lastSearch,    \* "not called", "pending", "returned" or "raised"
    clean,         \* every model.ainvoke so far answered with usable data
    \* the asyncio event loop
    event_loop     \* None when one coroutine runs alone; else the running
                   \* task, what its external calls will answer, and the
                   \* suspended task with all that belongs to it

stateVars == << request, research_results, portfolio_plan,
                investment_rationale, investment_plan >>
ctlVars == << node, pc, count, run, error, direct, search_query >>
invVars == << genCalls, fallbackRuns, lastOutcome >>
runVars == << totalGenCalls, searchCalls, started, completed, accepted,
              fallbackUsed, lastSearch, clean >>
promptVars == << system_prompt, calls >>
vars == << stateVars, ctlVars, invVars, runVars, promptVars, event_loop >>

\* async_create_investment_plan: a fresh InvestmentAgentState handed to
\* graph.ainvoke
Init ==
    /\ request \in Requests
    /\ research_results = None
    /\ portfolio_plan = None
    /\ investment_rationale = None
    /\ investment_plan = None
    /\ node = START
    /\ pc = "entry"
    /\ count = 0
    /\ run = "running"
    /\ error = None
    /\ direct = FALSE
    /\ search_query = None
    /\ system_prompt = None
    /\ calls = <<>>
    /\ genCalls = 0
    /\ fallbackRuns = 0
    /\ lastOutcome = NoOutcome
    /\ totalGenCalls = 0
    /\ searchCalls = 0
    /\ started = {}
    /\ completed = {}
    /\ accepted = [k \in Stages |-> None]
    /\ fallbackUsed = {}
    /\ lastSearch = "not called"
    /\ clean = TRUE
    /\ event_loop = None

\* ------------------------------------------------------------------------
\* Pieces shared by the stages' actions
\* ------------------------------------------------------------------------
At(n, p) == run = "running" /\ node = n /\ pc = p

\* the answer o is the one the awaited model.ainvoke of stage k gives: any
\* answer for a coroutine that runs alone, the answer laid down for this
\* attempt when two coroutines share the event loop
Scheduled(k, o) ==
    IF IsNone(event_loop) THEN TRUE
    ELSE o = Val(event_loop).call.gen[k][count + 1]

\* the same for serpapi.run
SearchScheduled(how) ==
    IF IsNone(event_loop) THEN TRUE
    ELSE how = Val(event_loop).call.search

\* an exception leaves the node and graph.ainvoke
Raise(msg) ==
    /\ run' = "raised"
    /\ error' = Some(msg)
    /\ pc' = "done"
    /\ UNCHANGED << node, count >>

\* model.ainvoke(messages, config) with the prompt as its one message
Call(prompt) == [prompt |-> prompt, answered |-> FALSE]

\* the awaited call, the latest, got its answer or its exception
Answer(cs) == [cs EXCEPT ![Len(cs)].answered = TRUE]

\* the stage builds its prompt and makes its first call with it
Build(prompt) ==
    /\ system_prompt' = Some(prompt)
    /\ calls' = << Call(prompt) >>

\* the stage is left before it builds a prompt
NoPrompt ==
    /\ system_prompt' = None
    /\ calls' = <<>>

\* the stage enters its loop and awaits the first model.ainvoke
FirstAttempt ==
    /\ pc' = "llm"
    /\ count' = 0
    /\ genCalls' = 1
    /\ totalGenCalls' = totalGenCalls + 1
    /\ UNCHANGED << node, run, error >>

\* the loop goes round with a prompt that tells of the failed attempt
NextAttempt_RebuildsPrompt ==
    /\ count' = count + 1
    /\ genCalls' = genCalls + 1
    /\ totalGenCalls' = totalGenCalls + 1
    /\ UNCHANGED << node, pc, run, error >>
    /\ system_prompt' = Some([retry |-> count + 1, of |-> Val(system_prompt)])
    /\ calls' = Append(Answer(calls), Call(Val(system_prompt')))

\* the loop goes round and awaits the next model.ainvoke
NextAttempt ==
    /\ count' = count + 1
    /\ genCalls' = genCalls + 1
    /\ totalGenCalls' = totalGenCalls + 1
    /\ UNCHANGED << node, pc, run, error >>
    /\ calls' = Append(Answer(calls), Call(Val(system_prompt)))
    /\ UNCHANGED system_prompt

\* `return state`: the graph follows the node's edge
ReturnState(k) ==
    /\ node' = IF direct THEN node ELSE Edge(node)
    /\ pc' = IF direct \/ Edge(node) = END THEN "done" ELSE "entry"
    /\ run' = IF direct \/ Edge(node) = END THEN "returned" ELSE "running"
    /\ completed' = completed \cup {k}
    /\ UNCHANGED << count, error, genCalls, totalGenCalls >>

\* bookkeeping of a stage's accepted response or fallback
Record(k, o, r) ==
    /\ fallbackRuns' = IF r.do = "return" /\ r.fallback
                        THEN fallbackRuns + 1 ELSE fallbackRuns
    /\ fallbackUsed' = IF r.do = "return" /\ r.fallback
                        THEN fallbackUsed \cup {k} ELSE fallbackUsed
    /\ accepted' = IF r.do = "return" /\ ~r.fallback
                    THEN [accepted EXCEPT ![k] = Some(o)] ELSE accepted
    /\ lastOutcome' = o
    /\ clean' = (clean /\ (HasCompanies(o) \/ HasContent(o)))
    /\ UNCHANGED lastSearch

\* what the stage does after the outcome r of an attempt
Continue(k, r, msg) ==
    CASE r.do = "return" ->
            /\ ReturnState(k)
            /\ calls' = Answer(calls)
            /\ UNCHANGED system_prompt
      [] r.do = "retry"  -> NextAttempt /\ UNCHANGED completed
      [] r.do = "raise"  ->
            /\ Raise(IF "exc" \in DOMAIN r THEN r.exc ELSE msg)
            /\ UNCHANGED << genCalls, totalGenCalls, completed >>
            /\ calls' = Answer(calls)
            /\ UNCHANGED system_prompt

\* ------------------------------------------------------------------------
\* Actions
\* ------------------------------------------------------------------------
\* graph.ainvoke(state) schedules the node after START
graph_ainvoke ==
    /\ At(START, "entry")
    /\ UNCHANGED << direct, search_query, event_loop >>
    /\ UNCHANGED promptVars
    /\ node' = Edge(START)
    /\ UNCHANGED << stateVars, pc, count, run, error, invVars, runVars >>

\* step 1 storing the default industry: state.industry = industry
step_1_begin_WritesDefault ==
    /\ At(STEP_1, "entry")
    /\ search_query' =
          Some([industry |-> IF IsNone(request.industry) THEN "technology"
                             ELSE Val(request.industry)])
    /\ UNCHANGED << direct, event_loop >>
    /\ NoPrompt
    /\ request' = [request EXCEPT !.industry =
                      IF IsNone(@) THEN Some("technology") ELSE @]
    /\ pc' = "search"
    /\ searchCalls' = searchCalls + 1
    /\ started' = started \cup {1}
    /\ count' = 0
    /\ genCalls' = 0
    /\ fallbackRuns' = 0
    /\ lastOutcome' = NoOutcome
    /\ lastSearch' = "pending"
    /\ UNCHANGED << research_results, portfolio_plan, investment_rationale,
                    investment_plan, node, run, error, totalGenCalls,
                    completed, accepted, fallbackUsed, clean >>

\* step 1 up to `await tools.search_companies(search_query)`
step_1_begin ==
    /\ At(STEP_1, "entry")
    /\ search_query' =
          Some([industry |-> IF IsNone(request.industry) THEN "technology"
                             ELSE Val(request.industry)])
    /\ UNCHANGED << direct, event_loop >>
    /\ NoPrompt
    /\ pc' = "search"
    /\ searchCalls' = searchCalls + 1
    /\ started' = started \cup {1}
    /\ count' = 0
    /\ genCalls' = 0
    /\ fallbackRuns' = 0
    /\ lastOutcome' = NoOutcome
    /\ lastSearch' = "pending"
    /\ UNCHANGED << stateVars, node, run, error, totalGenCalls, completed,
                    accepted, fallbackUsed, clean >>

\* the search returns its text; step 1 builds the prompt and awaits the
\* first model.ainvoke
search_companies_return ==
    /\ At(STEP_1, "search")
    /\ SearchScheduled("returned")
    /\ UNCHANGED << direct, search_query, event_loop >>
    /\ FirstAttempt
    /\ Build(CompanyResearchPrompt(request, Val(search_query)))
    /\ lastSearch' = "returned"
    /\ UNCHANGED << stateVars, fallbackRuns, lastOutcome, searchCalls,
                    started, completed, accepted, fallbackUsed, clean >>

\* a search failure that is caught and turned into an empty search text
search_companies_raise_swallowed ==
    /\ At(STEP_1, "search")
    /\ SearchScheduled("raised")
    /\ UNCHANGED << direct, search_query, event_loop >>
    /\ FirstAttempt
    /\ Build(CompanyResearchPrompt(request, Val(search_query)))
    /\ lastSearch' = "raised"
    /\ UNCHANGED << stateVars, fallbackRuns, lastOutcome, searchCalls,
                    started, completed, accepted, fallbackUsed, clean >>

\* serpapi.run raises; nothing in step 1 catches it
search_companies_raise ==
    /\ At(STEP_1, "search")
    /\ SearchScheduled("raised")
    /\ UNCHANGED << direct, search_query, event_loop >>
    /\ UNCHANGED promptVars
    /\ Raise("SerpAPI search failed")
    /\ lastSearch' = "raised"
    /\ UNCHANGED << stateVars, invVars, totalGenCalls, searchCalls, started,
                    completed, accepted, fallbackUsed, clean >>

\* step 1 searching anew before each further attempt
step_1_research_companies_SearchesAgain ==
    /\ At(STEP_1, "llm")
    /\ UNCHANGED << direct, search_query, event_loop >>
    /\ \E o \in { x \in ResearchOutcomes : Scheduled(1, x) } :
          LET r == Step1Outcome(count, o) IN
          /\ Continue(1, r, "Failed to process company research after %d attempts.")
          /\ Record(1, o, r)
          /\ research_results' =
                IF r.do = "return" THEN Some(r.value) ELSE research_results
          /\ searchCalls' =
                IF r.do = "retry" THEN searchCalls + 1 ELSE searchCalls
    /\ UNCHANGED << request, portfolio_plan, investment_rationale,
                    investment_plan, started >>

\* step 1 from the outcome of one model.ainvoke to the next await, the
\* return or the raise
step_1_research_companies ==
    /\ At(STEP_1, "llm")
    /\ UNCHANGED << direct, search_query, event_loop >>
    /\ \E o \in { x \in ResearchOutcomes : Scheduled(1, x) } :
          LET r == Step1Outcome(count, o) IN
          /\ Continue(1, r, "Failed to process company research after %d attempts.")
          /\ Record(1, o, r)
          /\ research_results' =
                IF r.do = "return" THEN Some(r.value) ELSE research_results
    /\ UNCHANGED << request, portfolio_plan, investment_rationale,
                    investment_plan, searchCalls, started >>

\* step 2 without its `if not state.research_results` guard
step_2_begin_NoCheck ==
    /\ At(STEP_2, "entry")
    /\ UNCHANGED << direct, search_query, event_loop >>
    /\ started' = started \cup {2}
    /\ fallbackRuns' = 0
    /\ lastOutcome' = NoOutcome
    /\ FirstAttempt
    /\ Build([template |-> "unguarded"])
    /\ UNCHANGED << stateVars, searchCalls, completed, accepted, fallbackUsed,
                    lastSearch, clean >>

\* step 2 up to its first model.ainvoke, or its precondition error
step_2_begin ==
    /\ At(STEP_2, "entry")
    /\ UNCHANGED << direct, search_query, event_loop >>
    /\ started' = started \cup {2}
    /\ fallbackRuns' = 0
    /\ lastOutcome' = NoOutcome
    /\ IF IsNone(research_results) \/ Val(research_results) = <<>>
       THEN /\ Raise("No research results available for portfolio planning")
            /\ genCalls' = 0
            /\ UNCHANGED totalGenCalls
            /\ NoPrompt
       ELSE /\ FirstAttempt
            /\ Build(PortfolioPlanningPrompt(request, Val(research_results)))
    /\ UNCHANGED << stateVars, searchCalls, completed, accepted, fallbackUsed,
                    lastSearch, clean >>

step_2_build_portfolio ==
    /\ At(STEP_2, "llm")
    /\ UNCHANGED << direct, search_query, event_loop >>
    /\ \E o \in { x \in PortfolioOutcomes : Scheduled(2, x) } :
          LET r == Step2Outcome(count, o, Val(research_results)) IN
          /\ Continue(2, r, "Failed to build portfolio plan after %d attempts.")
          /\ Record(2, o, r)
          /\ portfolio_plan' =
                IF r.do = "return" THEN Some(r.value) ELSE portfolio_plan
    /\ UNCHANGED << request, research_results, investment_rationale,
                    investment_plan, searchCalls, started >>

\* step 3 without its `if not state.portfolio_plan` guard
step_3_begin_NoCheck ==
    /\ At(STEP_3, "entry")
    /\ UNCHANGED << direct, search_query, event_loop >>
    /\ started' = started \cup {3}
    /\ fallbackRuns' = 0
    /\ lastOutcome' = NoOutcome
    /\ FirstAttempt
    /\ Build([template |-> "unguarded"])
    /\ UNCHANGED << stateVars, searchCalls, completed, accepted, fallbackUsed,
                    lastSearch, clean >>

\* step 3 up to its first _get_llm().ainvoke, or its precondition error
step_3_begin ==
    /\ At(STEP_3, "entry")
    /\ UNCHANGED << direct, search_query, event_loop >>
    /\ started' = started \cup {3}
    /\ fallbackRuns' = 0
    /\ lastOutcome' = NoOutcome
    /\ IF IsNone(portfolio_plan)
       THEN /\ Raise("No portfolio plan available for rationale generation")
            /\ genCalls' = 0
            /\ UNCHANGED totalGenCalls
            /\ NoPrompt
       ELSE /\ FirstAttempt
            /\ Build(InvestmentRationalePrompt(request, research_results,
                                               Val(portfolio_plan)))
    /\ UNCHANGED << stateVars, searchCalls, completed, accepted, fallbackUsed,
                    lastSearch, clean >>

step_3_generate_rationale ==
    /\ At(STEP_3, "llm")
    /\ UNCHANGED << direct, search_query, event_loop >>
    /\ \E o \in { x \in MessageOutcomes : Scheduled(3, x) } :
          LET r == Step3Outcome(count, o, request, research_results,
                                Val(portfolio_plan)) IN
          /\ Continue(3, r, "Failed to generate investment rationale after %d attempts.")
          /\ Record(3, o, r)
          /\ investment_rationale' =
                IF r.do = "return" THEN Some(r.value) ELSE investment_rationale
    /\ UNCHANGED << request, research_results, portfolio_plan,
                    investment_plan, searchCalls, started >>

\* step 4 without its guard on portfolio_plan and investment_rationale
step_4_begin_NoCheck ==
    /\ At(STEP_4, "entry")
    /\ UNCHANGED << direct, search_query, event_loop >>
    /\ started' = started \cup {4}
    /\ fallbackRuns' = 0
    /\ lastOutcome' = NoOutcome
    /\ FirstAttempt
    /\ Build([template |-> "unguarded"])
    /\ UNCHANGED << stateVars, searchCalls, completed, accepted, fallbackUsed,
                    lastSearch, clean >>

\* step 4 up to its first _get_llm().ainvoke, or its precondition error
step_4_begin ==
    /\ At(STEP_4, "entry")
    /\ UNCHANGED << direct, search_query, event_loop >>
    /\ started' = started \cup {4}
    /\ fallbackRuns' = 0
    /\ lastOutcome' = NoOutcome
    /\ IF \/ IsNone(portfolio_plan)
          \/ IsNone(investment_rationale)
          \/ ~Truthy(Val(investment_rationale))
       THEN /\ Raise("Missing portfolio plan or investment rationale for final report")
            /\ genCalls' = 0
            /\ UNCHANGED totalGenCalls
            /\ NoPrompt
       ELSE /\ FirstAttempt
            /\ Build(FinalReportPrompt(request, Val(portfolio_plan),
                                       Val(investment_rationale)))
    /\ UNCHANGED << stateVars, searchCalls, completed, accepted, fallbackUsed,
                    lastSearch, clean >>

\* step 4 dropping the rationale once the report holds it
step_4_format_final_report_ClearsRationale ==
    /\ At(STEP_4, "llm")
    /\ UNCHANGED << direct, search_query, event_loop >>
    /\ \E o \in { x \in MessageOutcomes : Scheduled(4, x) } :
          LET r == Step4Outcome(count, o, request, research_results,
                                Val(portfolio_plan), Val(investment_rationale)) IN
          /\ Continue(4, r, "Failed to format final report after %d attempts.")
          /\ Record(4, o, r)
          /\ investment_plan' =
                IF r.do = "return" THEN Some(r.value) ELSE investment_plan
    /\ investment_rationale' =
          IF ~IsNone(investment_plan') THEN None ELSE investment_rationale
    /\ UNCHANGED << request, research_results, portfolio_plan,
                    searchCalls, started >>

step_4_format_final_report ==
    /\ At(STEP_4, "llm")
    /\ UNCHANGED << direct, search_query, event_loop >>
    /\ \E o \in { x \in MessageOutcomes : Scheduled(4, x) } :
          LET r == Step4Outcome(count, o, request, research_results,
                                Val(portfolio_plan), Val(investment_rationale)) IN
          /\ Continue(4, r, "Failed to format final report after %d attempts.")
          /\ Record(4, o, r)
          /\ investment_plan' =
                IF r.do = "return" THEN Some(r.value) ELSE investment_plan
    /\ UNCHANGED << request, research_results, portfolio_plan,
                    investment_rationale, searchCalls, started >>

Next ==
    \/ graph_ainvoke
    \/ step_1_begin
    \/ search_companies_return
    \/ search_companies_raise
    \/ step_1_research_companies
    \/ step_2_begin
    \/ step_2_build_portfolio
    \/ step_3_begin
    \/ step_3_generate_rationale
    \/ step_4_begin
    \/ step_4_format_final_report

Spec == Init /\ [][Next]_vars

\* ------------------------------------------------------------------------
\* A stage function called directly on a hand-built InvestmentAgentState,
\* as debug_portfolio.py calls step_2_build_portfolio
\* ------------------------------------------------------------------------
HandBuiltResearch ==
    { None, Some(<<>>),
      \* two entries of one name that differ in risk and explanation
      Some(<< [name |-> "Apple Inc.", risk_factor |-> "High",
               explanation |-> "Hardware cycle"] >>
           \o ResearchDicts(Cycle(ResearchPool, 2, 0))),
      Some(ResearchDicts(Cycle(ResearchPool, 3, 0))),
      Some(ResearchDicts(Cycle(ResearchPool, MaxResearch, 1))) }

HandBuiltPlans ==
    { None } \cup
    { Some(PortfolioDict(o)) :
        o \in { x \in PortfolioOutcomes : x.kind = "structured" } }

HandBuiltTexts ==
    { None, Some(<<>>), Some(<<WS>>), Some(<<Lit("handwritten text")>>) }

InitDirect ==
    /\ request \in Requests
    /\ research_results \in HandBuiltResearch
    /\ portfolio_plan \in HandBuiltPlans
    /\ investment_rationale \in HandBuiltTexts
    /\ investment_plan = None
    /\ node \in {STEP_1, STEP_2, STEP_3, STEP_4}
    /\ pc = "entry"
    /\ count = 0
    /\ run = "running"
    /\ error = None
    /\ direct = TRUE
    /\ search_query = None
    /\ system_prompt = None
    /\ calls = <<>>
    /\ genCalls = 0
    /\ fallbackRuns = 0
    /\ lastOutcome = NoOutcome
    /\ totalGenCalls = 0
    /\ searchCalls = 0
    /\ started = {}
    /\ completed = {}
    /\ accepted = [k \in Stages |-> None]
    /\ fallbackUsed = {}
    /\ lastSearch = "not called"
    /\ clean = TRUE
    /\ event_loop = None

NextDirect ==
    \/ step_1_begin
    \/ search_companies_return
    \/ search_companies_raise
    \/ step_1_research_companies
    \/ step_2_begin
    \/ step_2_build_portfolio
    \/ step_3_begin
    \/ step_3_generate_rationale
    \/ step_4_begin
    \/ step_4_format_final_report

SpecDirect == InitDirect /\ [][NextDirect]_vars

\* ------------------------------------------------------------------------
\* Two calls of async_create_investment_plan on one event loop. Each call
\* constructs its own InvestmentAgentState; each stage constructs its own
\* model and search wrapper; the module keeps nothing else that is written.
\* ------------------------------------------------------------------------
\* answers of model.ainvoke used below
Failure == [kind |-> "exception", exc |-> "TransientError"]
Research3 == [kind |-> "structured", companies |-> Cycle(ResearchPool, 3, 0)]
ResearchMax == [kind |-> "structured", companies |-> Cycle(ResearchPool, MaxResearch, 1)]
ResearchEmpty == [kind |-> "structured", companies |-> Cycle(ResearchPool, 0, 0)]
Plan2 == [kind |-> "structured", companies |-> Cycle(AllocationPool, 2, 0), total_allocation |-> TotalPool[1]]
PlanEmpty == [kind |-> "structured", companies |-> Cycle(AllocationPool, 0, 0), total_allocation |-> TotalPool[1]]
Text == [kind |-> "message", content |-> << Lit("generated text") >>]

Thrice(o) == << o, o, o >>

\* what the external calls of one run answer: serpapi.run, and per stage
\* the three model.ainvoke attempts
Answers ==
    { \* every call answers well
      [search |-> "returned",
       gen |-> << Thrice(Research3), Thrice(Plan2), Thrice(Text), Thrice(Text) >>],
      \* research on the third attempt, empty plan, no rationale, late report
      [search |-> "returned",
       gen |-> << << Failure, ResearchEmpty, ResearchMax >>, Thrice(PlanEmpty),
                  Thrice(Failure), << Unusable, Text, Text >> >>],
      \* planning and report generation keep failing
      [search |-> "returned",
       gen |-> << Thrice(Research3), Thrice(Failure), Thrice(Text),
                  Thrice(Failure) >>],
      \* research never succeeds
      [search |-> "returned",
       gen |-> << << ResearchEmpty, Failure, Unusable >>, Thrice(Plan2),
                  Thrice(Text), Thrice(Text) >>],
      \* the search fails
      [search |-> "raised",
       gen |-> << Thrice(Research3), Thrice(Plan2), Thrice(Text), Thrice(Text) >>] }

\* a call of async_create_investment_plan with what its run will be answered
Calls ==
    { [request |-> r, search |-> a.search, gen |-> a.gen] :
        r \in Requests, a \in Answers }

\* all that belongs to the running task
Context ==
    [request |-> request, research_results |-> research_results,
     portfolio_plan |-> portfolio_plan,
     investment_rationale |-> investment_rationale,
     investment_plan |-> investment_plan,
     node |-> node, pc |-> pc, count |-> count, run |-> run, error |-> error,
     search_query |-> search_query,
     system_prompt |-> system_prompt, calls |-> calls,
     genCalls |-> genCalls, fallbackRuns |-> fallbackRuns,
     lastOutcome |-> lastOutcome, totalGenCalls |-> totalGenCalls,
     searchCalls |-> searchCalls, started |-> started,
     completed |-> completed, accepted |-> accepted,
     fallbackUsed |-> fallbackUsed, lastSearch |-> lastSearch,
     clean |-> clean]

\* a task that has not run yet: the fresh state of its call
FreshContext(r) ==
    [request |-> r, research_results |-> None, portfolio_plan |-> None,
     investment_rationale |-> None, investment_plan |-> None,
     node |-> START, pc |-> "entry", count |-> 0, run |-> "running",
     error |-> None, search_query |-> None,
     system_prompt |-> None, calls |-> <<>>,
     genCalls |-> 0, fallbackRuns |-> 0, lastOutcome |-> NoOutcome,
     totalGenCalls |-> 0, searchCalls |-> 0, started |-> {},
     completed |-> {}, accepted |-> [k \in Stages |-> None],
     fallbackUsed |-> {}, lastSearch |-> "not called", clean |-> TRUE]

\* the running task goes on with what belongs to task c
ResumeControl(c) ==
    /\ node' = c.node
    /\ pc' = c.pc
    /\ count' = c.count
    /\ run' = c.run
    /\ error' = c.error
    /\ search_query' = c.search_query
    /\ system_prompt' = c.system_prompt
    /\ calls' = c.calls
    /\ genCalls' = c.genCalls
    /\ fallbackRuns' = c.fallbackRuns
    /\ lastOutcome' = c.lastOutcome
    /\ totalGenCalls' = c.totalGenCalls
    /\ searchCalls' = c.searchCalls
    /\ started' = c.started
    /\ completed' = c.completed
    /\ accepted' = c.accepted
    /\ fallbackUsed' = c.fallbackUsed
    /\ lastSearch' = c.lastSearch
    /\ clean' = c.clean
    /\ UNCHANGED direct

ResumeState(c) ==
    /\ request' = c.request
    /\ research_results' = c.research_results
    /\ portfolio_plan' = c.portfolio_plan
    /\ investment_rationale' = c.investment_rationale
    /\ investment_plan' = c.investment_plan

\* the tasks swap places
Swap ==
    LET e == Val(event_loop) IN
    event_loop' = Some([current |-> 3 - e.current,
                        call |-> e.suspended_call,
                        suspended |-> Context,
                        suspended_call |-> e.call])

\* one InvestmentAgentState kept at module level and used by both runs
event_loop_switch_SharedState ==
    /\ ~IsNone(event_loop)
    /\ pc \in {"search", "llm", "done"}
    /\ Val(event_loop).suspended.run = "running"
    /\ Swap
    /\ ResumeControl(Val(event_loop).suspended)
    /\ UNCHANGED stateVars

\* the running coroutine is suspended in `await tools.search_companies`
\* or `await model.ainvoke`, or is over; the event loop resumes the other
\* task, which works on the state object of its own call
event_loop_switch ==
    /\ ~IsNone(event_loop)
    /\ pc \in {"search", "llm", "done"}
    /\ Val(event_loop).suspended.run = "running"
    /\ Swap
    /\ ResumeControl(Val(event_loop).suspended)
    /\ ResumeState(Val(event_loop).suspended)

\* two calls with distinct requests; the first task runs
InitPair ==
    \E c1 \in Calls, c2 \in Calls :
        /\ c1.request # c2.request
        /\ request = c1.request
        /\ research_results = None
        /\ portfolio_plan = None
        /\ investment_rationale = None
        /\ investment_plan = None
        /\ node = START
        /\ pc = "entry"
        /\ count = 0
        /\ run = "running"
        /\ error = None
        /\ direct = FALSE
        /\ search_query = None
        /\ system_prompt = None
        /\ calls = <<>>
        /\ genCalls = 0
        /\ fallbackRuns = 0
        /\ lastOutcome = NoOutcome
        /\ totalGenCalls = 0
        /\ searchCalls = 0
        /\ started = {}
        /\ completed = {}
        /\ accepted = [k \in Stages |-> None]
        /\ fallbackUsed = {}
        /\ lastSearch = "not called"
        /\ clean = TRUE
        /\ event_loop = Some([current |-> 1, call |-> c1,
                              suspended |-> FreshContext(c2.request),
                              suspended_call |-> c2])

NextPair ==
    \/ event_loop_switch
    \/ graph_ainvoke
    \/ step_1_begin
    \/ search_companies_return
    \/ search_companies_raise
    \/ step_1_research_companies
    \/ step_2_begin
    \/ step_2_build_portfolio
    \/ step_3_begin
    \/ step_3_generate_rationale
    \/ step_4_begin
    \/ step_4_format_final_report

SpecPair == InitPair /\ [][NextPair]_vars

\* the `for count in range(_MAX_LLM_RETRIES)` loop run on the outcomes
\* f[0], f[1], f[2] of its attempts
Loop(f) ==
    IF f[0].do # "retry" THEN f[0] ELSE IF f[1].do # "retry" THEN f[1] ELSE f[2]

\* how a run ends
Ended(how, err, rr, pp, ir, ip) ==
    [run |-> how, error |-> err, research_results |-> rr,
     portfolio_plan |-> pp, investment_rationale |-> ir,
     investment_plan |-> ip]

\* the end of the run of call c when nothing else runs: the four stages
\* one after the other on the call's own answers
Alone(c) ==
    LET r1 == Loop([n \in 0..2 |-> Step1Outcome(n, c.gen[1][n + 1])])
        rr == Some(r1.value)
        r2 == Loop([n \in 0..2 |-> Step2Outcome(n, c.gen[2][n + 1], r1.value)])
        pp == Some(r2.value)
        r3 == Loop([n \in 0..2 |->
                      Step3Outcome(n, c.gen[3][n + 1], c.request, rr, r2.value)])
        ir == Some(r3.value)
        r4 == Loop([n \in 0..2 |->
                      Step4Outcome(n, c.gen[4][n + 1], c.request, rr, r2.value,
                                   r3.value)])
    IN  IF c.search = "raised"
        THEN Ended("raised", Some("SerpAPI search failed"), None, None, None, None)
        ELSE IF r1.do = "raise"
        THEN Ended("raised",
                   Some("Failed to process company research after %d attempts."),
                   None, None, None, None)
        ELSE IF r2.do = "raise"
        THEN Ended("raised",
                   Some("Failed to build portfolio plan after %d attempts."),
                   rr, None, None, None)
        ELSE IF r3.do = "raise"
        THEN Ended("raised",
                   Some("Failed to generate investment rationale after %d attempts."),
                   rr, pp, None, None)
        ELSE IF r4.do = "raise"
        THEN Ended("raised",
                   Some("Failed to format final report after %d attempts."),
                   rr, pp, ir, None)
        ELSE Ended("returned", None, rr, pp, ir, Some(r4.value))

\* the external calls always return or raise, and the event loop resumes
\* the awaiting coroutine
FairSpec == Spec /\ WF_vars(Next)

TypeOK ==
    /\ request \in Requests
    /\ direct \in BOOLEAN
    /\ node \in {START, STEP_1, STEP_2, STEP_3, STEP_4, END}
    /\ pc \in {"entry", "search", "llm", "done"}
    /\ count \in 0..(MAX_LLM_RETRIES - 1)
    /\ run \in {"running", "returned", "raised"}
    /\ genCalls \in 0..MAX_LLM_RETRIES
    /\ lastSearch \in {"not called", "pending", "returned", "raised"}
    /\ clean \in BOOLEAN
    /\ started \subseteq Stages
    /\ completed \subseteq started
    /\ fallbackUsed \subseteq completed
    /\ fallbackRuns \in 0..1

\* ------------------------------------------------------------------------
\* Properties
\* ------------------------------------------------------------------------
StageOf(n) ==
    CASE n = STEP_1 -> 1 [] n = STEP_2 -> 2 [] n = STEP_3 -> 3
      [] n = STEP_4 -> 4 [] n = END -> 5 [] OTHER -> 0

\* the stage whose invocation genCalls, fallbackRuns and lastOutcome
\* describe: the node that runs, or the one that just returned
InvokedStage ==
    IF node = START THEN 0
    ELSE IF run = "running" /\ pc = "entry" THEN StageOf(node) - 1
    ELSE IF node = END THEN 4
    ELSE StageOf(node)

\* the invocation described by the history is over
InvocationOver == pc \in {"entry", "done"}

\* result field k of the state
Field(k) ==
    CASE k = 1 -> research_results
      [] k = 2 -> portfolio_plan
      [] k = 3 -> investment_rationale
      [] k = 4 -> investment_plan

Populated(k) == ~IsNone(Field(k))

\* the outcome meets its stage's success criterion
Succeeded(o) == HasCompanies(o) \/ HasContent(o)

\* C1: in one invocation of any of the four stages the generation
\* capability is called at most 3 times, whatever it answers.
C1_RetryCeiling == genCalls <= 3

\* a stage made its third call, got its answer and is over
C1_Witness == InvocationOver /\ genCalls = 3 /\ lastOutcome.kind = "unusable"

\* C2: stages 2, 3 and 4 never end in an error once their precondition
\* holds (at least one generation call was made), whatever the generation
\* capability does; they return with their result field populated.
C2_NoExhaustionError ==
    /\ ~(run = "raised" /\ InvokedStage \in 2..4 /\ genCalls >= 1)
    /\ \A k \in 2..4 : k \in completed => Populated(k)

\* C3: in stages 2, 3 and 4, after three failed attempts the fallback
\* producer has run exactly once, it does not run while fewer than three
\* attempts have failed in such a sequence, and no generation call is in
\* flight once it has run.
C3_FallbackOnceAfterThirdFailure ==
    /\ (InvokedStage \in 2..4 /\ InvocationOver /\ genCalls = 3
          /\ ~Succeeded(lastOutcome)) => fallbackRuns = 1
    /\ fallbackRuns <= 1
    /\ fallbackRuns = 1 => InvocationOver

\* C4: when a step 2 attempt (the 1st, 2nd or 3rd) answers with a plan
\* whose companies list is empty, step 2 writes the fallback portfolio and
\* returns in that same step, making no further generation call.
C4_EmptyResultShortCircuit ==
    [][ (At(STEP_2, "llm") /\ HasNoCompanies(lastOutcome'))
        => /\ portfolio_plan' =
                Some(EmptyPortfolioFallback(Val(research_results)))
           /\ 2 \in completed' /\ 2 \in fallbackUsed'
           /\ node' = STEP_3 /\ pc' = "entry"
           /\ genCalls' = genCalls /\ totalGenCalls' = totalGenCalls ]_vars

\* step 2 returned on an empty plan that came as the answer to its 2nd call
C4_Witness ==
    /\ InvokedStage = 2 /\ InvocationOver /\ HasNoCompanies(lastOutcome)
    /\ genCalls = 2 /\ 2 \in fallbackUsed

\* C5: when the third generation attempt of step 1 fails too, step 1 ends
\* with its RuntimeError, research_results stays absent, and the run is
\* over: no later stage is started and nothing changes any more.
C5_Step1ExhaustionAborts ==
    [][ /\ (At(STEP_1, "llm") /\ count = 2 /\ ~HasCompanies(lastOutcome'))
            => /\ run' = "raised"
               /\ error' = Some("Failed to process company research after %d attempts.")
               /\ research_results' = None
               /\ started' = {1} /\ completed' = {}
        /\ run = "raised" => UNCHANGED vars ]_vars

\* step 1 gave up after three failed attempts
C5_Witness ==
    /\ run = "raised" /\ node = STEP_1 /\ genCalls = 3
    /\ ~HasCompanies(lastOutcome) /\ lastOutcome # NoOutcome

\* C6: when the search fails, the run has failed with no generation call
\* made, research_results absent and no stage after step 1 started.
C6_SearchFailureAborts ==
    lastSearch = "raised"
    => /\ run = "raised"
       /\ error = Some("SerpAPI search failed")
       /\ totalGenCalls = 0 /\ genCalls = 0
       /\ research_results = None
       /\ started = {1} /\ completed = {}

\* the search was called once and raised
C6_Witness == lastSearch = "raised" /\ searchCalls = 1 /\ node = STEP_1

\* C7: a portfolio produced by the step 2 fallback, on either path, has
\* the first min(5, n) research entries in order, each with allocation
\* 100/min(5, n) and holding period "6-12 months", and total_allocation
\* 100 whatever the allocations add up to.
C7_FallbackPortfolio ==
    2 \in fallbackUsed =>
        LET research == Val(research_results)
            plan == Val(portfolio_plan)
            m == Min(5, Len(research))
        IN  /\ Len(research) > 0
            /\ Len(plan.companies) = m
            /\ \A i \in 1..m :
                  /\ plan.companies[i].company_name = research[i].name
                  /\ plan.companies[i].allocation_percentage = FloatDiv(100, m)
                  /\ plan.companies[i].holding_period = Some("6-12 months")
            /\ plan.total_allocation = Double(100)

\* the fallback ran on more than five research entries
C7_Witness ==
    /\ 2 \in fallbackUsed /\ Len(Val(research_results)) > 5
    /\ Len(Val(portfolio_plan).companies) = 5

\* C8: field k is populated only if stage k has completed, stage k+1 is
\* started only after stage k has completed, and field k+1 populated
\* implies field k populated.
C8_StageOrdering ==
    \A k \in Stages :
        /\ Populated(k) => k \in completed
        /\ k < 4 => ((k + 1) \in started => k \in completed)
        /\ k < 4 => (Populated(k + 1) => Populated(k))

\* step 3 is running on the results of steps 1 and 2
C8_Witness ==
    /\ At(STEP_3, "llm") /\ Populated(1) /\ Populated(2) /\ ~Populated(3)
    /\ started = {1, 2, 3}

\* C9: a run that returns has all four result fields populated.
C9_NoPartialSuccess == run = "returned" => \A k \in Stages : Populated(k)

\* graph.ainvoke returned
C9_Witness == run = "returned" /\ node = END /\ \A k \in Stages : Populated(k)

\* C10: when every generation call of the run succeeded with non-empty
\* data, the run made one call per stage, used no fallback, and its four
\* fields mirror the responses: research and portfolio entry for entry,
\* the rationale and the plan the texts of steps 3 and 4.
C10_HappyPath ==
    (run = "returned" /\ clean) =>
        /\ totalGenCalls = 4
        /\ fallbackUsed = {}
        /\ \A k \in Stages : ~IsNone(accepted[k])
        /\ LET r1 == Val(accepted[1]).companies
               research == Val(research_results)
           IN  /\ Len(research) = Len(r1)
               /\ \A i \in 1..Len(r1) :
                     /\ research[i].name = r1[i].name
                     /\ research[i].risk_factor = r1[i].risk_factor
                     /\ research[i].explanation = r1[i].explanation
        /\ LET r2 == Val(accepted[2])
               plan == Val(portfolio_plan)
           IN  /\ Len(plan.companies) = Len(r2.companies)
               /\ \A i \in 1..Len(r2.companies) :
                     /\ plan.companies[i].company_name = r2.companies[i].company_name
                     /\ plan.companies[i].allocation_percentage
                            = r2.companies[i].allocation_percentage
                     /\ plan.companies[i].holding_period
                            = r2.companies[i].holding_period
               /\ plan.total_allocation = r2.total_allocation
        /\ investment_rationale = Some(Val(accepted[3]).content)
        /\ investment_plan = Some(lastOutcome.content)
        /\ lastOutcome.kind = "message"

\* a run in which every call succeeded has returned
C10_Witness == run = "returned" /\ clean /\ totalGenCalls = 4

\* C11: step_2_build_portfolio invoked with research_results absent or
\* empty raises its precondition error at once: no generation call is
\* made and no field of the state is written (portfolio_plan stays as it
\* was, absent when it was absent).
C11_Step2Precondition ==
    [][ (At(STEP_2, "entry")
           /\ (IsNone(research_results) \/ Val(research_results) = <<>>))
        => /\ run' = "raised" /\ pc' = "done"
           /\ error' = Some("No research results available for portfolio planning")
           /\ genCalls' = 0 /\ totalGenCalls' = totalGenCalls
           /\ portfolio_plan' = portfolio_plan
           /\ UNCHANGED stateVars ]_vars

\* step 2 was called on a state whose research list is empty and raised
C11_Witness ==
    /\ direct /\ node = STEP_2 /\ run = "raised" /\ genCalls = 0
    /\ research_results = Some(<<>>) /\ IsNone(portfolio_plan)

\* C12: step_3_generate_rationale invoked with portfolio_plan absent
\* raises its precondition error at once: no generation call is made and
\* investment_rationale is not written.
C12_Step3Precondition ==
    [][ (At(STEP_3, "entry") /\ IsNone(portfolio_plan))
        => /\ run' = "raised" /\ pc' = "done"
           /\ error' = Some("No portfolio plan available for rationale generation")
           /\ genCalls' = 0 /\ totalGenCalls' = totalGenCalls
           /\ investment_rationale' = investment_rationale
           /\ UNCHANGED stateVars ]_vars

\* step 3 was called without a portfolio plan and raised
C12_Witness ==
    /\ direct /\ node = STEP_3 /\ run = "raised" /\ genCalls = 0
    /\ IsNone(portfolio_plan) /\ IsNone(investment_rationale)

\* C13: step_4_format_final_report invoked with portfolio_plan absent or
\* investment_rationale absent (or both) raises its precondition error at
\* once: no generation call is made and investment_plan stays absent.
C13_Step4Precondition ==
    [][ (At(STEP_4, "entry")
           /\ (IsNone(portfolio_plan) \/ IsNone(investment_rationale)))
        => /\ run' = "raised" /\ pc' = "done"
           /\ error' = Some("Missing portfolio plan or investment rationale for final report")
           /\ genCalls' = 0 /\ totalGenCalls' = totalGenCalls
           /\ investment_plan' = None
           /\ UNCHANGED stateVars ]_vars

\* step 4 was called with a portfolio plan but no rationale and raised
C13_Witness ==
    /\ direct /\ node = STEP_4 /\ run = "raised" /\ genCalls = 0
    /\ ~IsNone(portfolio_plan) /\ IsNone(investment_rationale)
    /\ IsNone(investment_plan)

\* C14: whenever step 1 returns, research_results is non-empty, as long
\* as the companies list of the response it accepted, in the same order,
\* with name, risk_factor and explanation copied unchanged.
C14_ResearchMirrorsResponse ==
    [][ (At(STEP_1, "llm") /\ 1 \in completed')
        => LET o == lastOutcome'
               rr == research_results'
           IN  /\ o.kind = "structured"
               /\ ~IsNone(rr)
               /\ Len(Val(rr)) > 0
               /\ Len(Val(rr)) = Len(o.companies)
               /\ \A i \in 1..Len(o.companies) :
                     /\ Val(rr)[i].name = o.companies[i].name
                     /\ Val(rr)[i].risk_factor = o.companies[i].risk_factor
                     /\ Val(rr)[i].explanation = o.companies[i].explanation ]_vars

\* step 1 returned three companies on its second attempt
C14_Witness ==
    /\ InvokedStage = 1 /\ 1 \in completed /\ genCalls = 2
    /\ Len(Val(research_results)) = 3
    /\ Val(research_results)[1].name # Val(research_results)[3].name

\* C15: if stage 1 succeeded, research_results is non-empty and every
\* entry has a non-empty name and a non-empty explanation.
C15_ResearchEntriesNonEmpty ==
    1 \in completed =>
        /\ Len(Val(research_results)) > 0
        /\ \A i \in 1..Len(Val(research_results)) :
              /\ Val(research_results)[i].name # ""
              /\ Val(research_results)[i].explanation # ""

\* C16: the step 2 fallback is a function of research_results alone, and
\* its two copies agree: the empty-result branch and the last-attempt
\* exception handler build the same portfolio_plan from the same state.
C16_FallbackDeterministic ==
    /\ (~IsNone(research_results) /\ Val(research_results) # <<>>)
          => EmptyPortfolioFallback(Val(research_results))
               = EmergencyPortfolioFallback(Val(research_results))
    /\ 2 \in fallbackUsed
          => /\ portfolio_plan = Some(EmptyPortfolioFallback(Val(research_results)))
             /\ portfolio_plan = Some(EmergencyPortfolioFallback(Val(research_results)))

\* the fallback was built by the exception handler of the third attempt,
\* on a research list longer than the slice
C16_Witness ==
    /\ InvokedStage = 2 /\ InvocationOver /\ 2 \in fallbackUsed
    /\ lastOutcome.kind = "exception" /\ genCalls = 3
    /\ Len(Val(research_results)) > 5

\* C18: no step changes risk_level, industry, investment_amount or
\* time_horizon; an absent industry stays absent while the search query
\* is built with "technology".
C18_RequestUnchanged ==
    [][ /\ request' = request
        /\ ~IsNone(search_query')
              => Val(search_query').industry =
                    (IF IsNone(request'.industry) THEN "technology"
                     ELSE Val(request'.industry)) ]_vars

\* a run without industry went through a fallback and returned
C18_Witness ==
    /\ run = "returned" /\ IsNone(request.industry)
    /\ search_query = Some([industry |-> "technology"])
    /\ fallbackUsed # {}

\* result field k of the state after the step
FieldAfter(k) ==
    CASE k = 1 -> research_results'
      [] k = 2 -> portfolio_plan'
      [] k = 3 -> investment_rationale'
      [] k = 4 -> investment_plan'

\* the response o is what field value f of stage k holds
Mirrors(k, o, f) ==
    CASE k = 1 -> Len(f) = Len(o.companies)
                  /\ \A i \in 1..Len(f) : f[i].name = o.companies[i].name
      [] k = 2 -> Len(f.companies) = Len(o.companies)
                  /\ f.total_allocation = o.total_allocation
                  /\ \A i \in 1..Len(f.companies) :
                        f.companies[i].company_name = o.companies[i].company_name
      [] OTHER -> f = o.content

\* C19: an attempt n < 3 that ends in an exception (transport or malformed
\* output) is followed by attempt n+1 and nothing else; an attempt that
\* succeeds makes the stage return the generation result, and no fallback
\* has run in that invocation.
C19_RetryStateMachine ==
    [][ /\ (run = "running" /\ pc = "llm" /\ count < 2
               /\ lastOutcome'.kind = "exception")
            => /\ run' = "running" /\ pc' = "llm" /\ node' = node
               /\ count' = count + 1 /\ genCalls' = genCalls + 1
               /\ fallbackRuns' = 0 /\ fallbackUsed' = fallbackUsed
               /\ completed' = completed
               /\ UNCHANGED stateVars
        /\ (run = "running" /\ pc = "llm" /\ Succeeded(lastOutcome'))
            => LET k == StageOf(node) IN
               /\ k \in completed' /\ k \notin fallbackUsed'
               /\ fallbackRuns' = 0 /\ genCalls' = genCalls
               /\ pc' # "llm"
               /\ ~IsNone(FieldAfter(k))
               /\ Mirrors(k, lastOutcome', Val(FieldAfter(k))) ]_vars

\* step 3 returned the text of its third attempt
C19_Witness ==
    /\ InvokedStage = 3 /\ InvocationOver /\ genCalls = 3
    /\ Succeeded(lastOutcome) /\ fallbackRuns = 0 /\ 3 \notin fallbackUsed
    /\ investment_rationale = Some(lastOutcome.content)

\* C20 as stated: in steps 1 and 2 an empty companies list is never
\* accepted as success and no further generation attempt follows it.
C20_EmptyNeverRetried ==
    [][ (run = "running" /\ pc = "llm" /\ HasNoCompanies(lastOutcome'))
        => /\ accepted' = accepted
           /\ genCalls' = genCalls ]_vars

\* C20 amended: an empty companies list is never accepted as success; in
\* step 2 it triggers the fallback with no further attempt; in step 1 it
\* is a failed attempt, followed by the next attempt (attempts 1 and 2) or
\* by the RuntimeError (attempt 3).
C20_EmptyResultRule ==
    [][ (run = "running" /\ pc = "llm" /\ HasNoCompanies(lastOutcome'))
        => /\ accepted' = accepted
           /\ node = STEP_2
                => /\ genCalls' = genCalls
                   /\ 2 \in completed' /\ 2 \in fallbackUsed'
           /\ node = STEP_1
                => /\ research_results' = research_results
                   /\ 1 \notin completed'
                   /\ IF count < 2
                      THEN genCalls' = genCalls + 1 /\ pc' = "llm"
                           /\ run' = "running"
                      ELSE run' = "raised" /\ genCalls' = genCalls ]_vars

\* step 1 got an empty list on its first attempt and is on its second
C20_Witness ==
    /\ At(STEP_1, "llm") /\ HasNoCompanies(lastOutcome) /\ genCalls = 2

\* how the task with context c ended
EndOf(c) ==
    Ended(c.run, c.error, c.research_results, c.portfolio_plan,
          c.investment_rationale, c.investment_plan)

\* after the step, each task that is over has ended as its call ends alone
EndsAsAlone ==
    LET e == Val(event_loop') IN
    /\ run' # "running"
          => Ended(run', error', research_results', portfolio_plan',
                   investment_rationale', investment_plan') = Alone(e.call)
    /\ e.suspended.run # "running"
          => EndOf(e.suspended) = Alone(e.suspended_call)

\* C17: two runs for distinct requests, interleaved at their search and
\* generation calls, each end (final state or failure) as they end alone
\* on the same answers, and a step of the running task leaves everything
\* that belongs to the suspended task as it was.
C17_RunsIndependent ==
    [][ ~IsNone(event_loop)
        => /\ EndsAsAlone
           /\ Val(event_loop').current = Val(event_loop).current
                => /\ Val(event_loop').suspended = Val(event_loop).suspended
                   /\ Val(event_loop').suspended_call = Val(event_loop).suspended_call ]_vars

\* both runs are over after being interleaved: the second finished through
\* two fallbacks while the first was still in its stages
C17_Witness ==
    /\ ~IsNone(event_loop)
    /\ run = "returned" /\ Val(event_loop).suspended.run = "returned"
    /\ request # Val(event_loop).suspended.request
    /\ Val(event_loop).current = 1
    /\ fallbackUsed = {} /\ Val(event_loop).suspended.fallbackUsed = {2, 3}
    /\ research_results # Val(event_loop).suspended.research_results

\* C21: a rationale or report that steps 3 and 4 took from the generation
\* capability (not from their fallback) is never empty or whitespace-only.
C21_BlankTextRejected ==
    \A k \in {3, 4} :
        (k \in completed /\ k \notin fallbackUsed)
            => Strip(Val(Field(k))) # <<>>

\* C22: whenever a fallback of step 2, 3 or 4 is entered (an exception on
\* the last attempt, or an empty plan in step 2), in the pipeline or in a
\* direct call on a hand-built state that passed the step's precondition,
\* the step returns its fallback value and raises nothing.
C22_FallbackCannotFail ==
    [][ (/\ run = "running" /\ pc = "llm"
         /\ node \in {STEP_2, STEP_3, STEP_4}
         /\ \/ count = MAX_LLM_RETRIES - 1 /\ lastOutcome'.kind = "exception"
            \/ node = STEP_2 /\ HasNoCompanies(lastOutcome'))
        => /\ run' # "raised"
           /\ StageOf(node) \in fallbackUsed' ]_vars

\* the chunk is a paragraph about a company
NamesCompany(c) == "company_name" \in DOMAIN c

\* indices of the research entries named name
Hits(research, name) == { j \in 1..Len(research) : research[j].name = name }

\* the first of them
FirstHit(research, name) ==
    CHOOSE j \in Hits(research, name) : \A h \in Hits(research, name) : j <= h

\* C23: the step 3 fallback rationale has one paragraph per portfolio
\* company, in portfolio order; a company with a research entry of exactly
\* its name gets that entry's explanation, a company without one gets a
\* paragraph that names it and carries no explanation.
C23_ParagraphPerCompany ==
    3 \in fallbackUsed =>
        LET paragraphs == SelectSeq(Val(investment_rationale), NamesCompany)
            companies == Val(portfolio_plan).companies
            research == ListOf(research_results)
        IN  /\ Len(paragraphs) = Len(companies)
            /\ \A i \in 1..Len(companies) :
                  LET name == companies[i].company_name IN
                  /\ paragraphs[i].company_name = name
                  /\ IF Hits(research, name) = {}
                     THEN "explanation" \notin DOMAIN paragraphs[i]
                     ELSE paragraphs[i].explanation =
                            research[FirstHit(research, name)].explanation

\* the chunk is a row of the allocation table
IsRow(c) == c.k = "row"

\* C24: the step 4 fallback report has one table row per portfolio
\* company, in portfolio order; its risk level is the risk_factor of the
\* first research entry of exactly that name, "Medium" if there is none.
C24_ReportRows ==
    4 \in fallbackUsed =>
        LET rows == SelectSeq(Val(investment_plan), IsRow)
            companies == Val(portfolio_plan).companies
            research == ListOf(research_results)
        IN  /\ Len(rows) = Len(companies)
            /\ \A i \in 1..Len(companies) :
                  LET name == companies[i].company_name IN
                  /\ rows[i].company_name = name
                  /\ rows[i].risk_level =
                        IF Hits(research, name) = {} THEN "Medium"
                        ELSE research[FirstHit(research, name)].risk_factor

\* the report was built for a company with two research entries of
\* different risk and a company with none
C24_Witness ==
    /\ direct /\ node = STEP_4 /\ 4 \in fallbackUsed
    /\ ~IsNone(research_results)
    /\ Len(Val(research_results)) >= 2
    /\ Val(research_results)[1].name = Val(research_results)[2].name
    /\ Val(research_results)[1].risk_factor # Val(research_results)[2].risk_factor
    /\ Len(Val(portfolio_plan).companies) = 2
    /\ Val(portfolio_plan).companies[1].company_name = Val(research_results)[1].name
    /\ Hits(Val(research_results), Val(portfolio_plan).companies[2].company_name) = {}

\* C25: the step 4 fallback report holds the whole investment_rationale,
\* chunk for chunk, under its heading, and building it leaves
\* investment_rationale, portfolio_plan and research_results as they were.
C25_RationaleVerbatim ==
    [][ (At(STEP_4, "llm") /\ 4 \in fallbackUsed')
        => LET r == Val(investment_rationale)
               p == Val(investment_plan')
           IN  /\ \E i \in 3..Len(p) :
                     /\ p[i - 2] = Lit("## Investment Rationale")
                     /\ p[i - 1] = WS
                     /\ i + Len(r) <= Len(p)
                     /\ SubSeq(p, i, i + Len(r) - 1) = r
                     /\ p[i + Len(r)] = WS
               /\ investment_rationale' = investment_rationale
               /\ portfolio_plan' = portfolio_plan
               /\ research_results' = research_results ]_vars

\* the report quotes a rationale of several paragraphs
C25_Witness ==
    /\ run = "returned" /\ 4 \in fallbackUsed /\ 3 \in fallbackUsed
    /\ Len(Val(investment_rationale)) >= 4

\* C29: a plan that step 2 accepts is stored company by company, in order,
\* with company_name, allocation_percentage and holding_period as they
\* came and total_allocation as reported, whatever the allocations add up
\* to and whether or not research knows the names.
C29_PlanStoredAsReported ==
    [][ (At(STEP_2, "llm") /\ HasCompanies(lastOutcome'))
        => LET o == lastOutcome'
               plan == Val(portfolio_plan')
           IN  /\ ~IsNone(portfolio_plan')
               /\ 2 \in completed' /\ 2 \notin fallbackUsed'
               /\ plan.total_allocation = o.total_allocation
               /\ Len(plan.companies) = Len(o.companies)
               /\ \A i \in 1..Len(o.companies) :
                     /\ plan.companies[i].company_name = o.companies[i].company_name
                     /\ plan.companies[i].allocation_percentage
                           = o.companies[i].allocation_percentage
                     /\ plan.companies[i].holding_period
                           = o.companies[i].holding_period ]_vars

\* a stored plan of 60 + 30 with a reported total of 100, naming a company
\* research never returned
C29_Witness ==
    /\ 2 \in completed /\ 2 \notin fallbackUsed
    /\ Len(Val(portfolio_plan).companies) = 2
    /\ Val(portfolio_plan).companies[1].allocation_percentage = Double(60)
    /\ Val(portfolio_plan).companies[2].allocation_percentage = Double(30)
    /\ Val(portfolio_plan).total_allocation = Double(100)
    /\ Hits(Val(research_results), "Tesla Inc.") = {}
    /\ Val(portfolio_plan).companies[2].company_name = "Tesla Inc."

\* C30: a populated portfolio_plan has at least one company, and at most
\* five when the fallback built it.
C30_PortfolioSize ==
    ~IsNone(portfolio_plan) =>
        /\ Len(Val(portfolio_plan).companies) >= 1
        /\ 2 \in fallbackUsed => Len(Val(portfolio_plan).companies) <= 5

\* the fallback cut six research entries down to five
C30_Witness ==
    /\ 2 \in fallbackUsed /\ Len(Val(research_results)) = 6
    /\ Len(Val(portfolio_plan).companies) = 5
    /\ lastOutcome.kind = "structured"

\* C26: within one stage invocation at most one model.ainvoke is awaiting
\* its answer, and it is the latest: every earlier call was answered before
\* the next was made; all calls were given the same prompt, the one the
\* stage built before its first call and still holds.
C26_SequentialSamePrompt ==
    /\ Len(calls) = genCalls
    /\ \A i \in 1..Len(calls) : ~calls[i].answered => i = Len(calls)
    /\ (pc = "llm") = (calls # <<>> /\ ~calls[Len(calls)].answered)
    /\ \A i \in 1..Len(calls) : calls[i].prompt = calls[1].prompt
    /\ calls # <<>> => system_prompt = Some(calls[1].prompt)

\* step 2 awaits its third call, made with the prompt of the first two
C26_Witness ==
    /\ At(STEP_2, "llm") /\ Len(calls) = MAX_LLM_RETRIES
    /\ calls[1].answered /\ calls[2].answered /\ ~calls[3].answered
    /\ calls[3].prompt.template = "portfolio_planning_prompt"

\* C27: tools.search_companies is called only on entry to step 1, once,
\* before any model.ainvoke of the step; retries do not call it again and
\* steps 2, 3 and 4 never call it.
C27_SearchOnce ==
    [][ /\ searchCalls' # searchCalls
            => /\ At(STEP_1, "entry")
               /\ searchCalls' = searchCalls + 1
               /\ genCalls' = 0 /\ totalGenCalls' = totalGenCalls
        /\ 1 \in started' => searchCalls' = 1
        /\ (node = STEP_1 /\ totalGenCalls' > totalGenCalls)
            => lastSearch' = "returned" /\ searchCalls' = 1 ]_vars

\* a run in which every step needed its third attempt
C27_Witness ==
    /\ run = "returned" /\ totalGenCalls = 4 * MAX_LLM_RETRIES
    /\ searchCalls = 1 /\ lastSearch = "returned"

\* the node of step k
NodeOf(k) ==
    CASE k = 1 -> STEP_1 [] k = 2 -> STEP_2 [] k = 3 -> STEP_3 [] k = 4 -> STEP_4

\* C28: a result field changes only in a step of its own stage, when that
\* stage returns; so no later stage overwrites or clears what an earlier
\* one wrote, and a stage that ends in an error changes no field.
C28_OwnFieldOnly ==
    [][ /\ \A k \in Stages :
              FieldAfter(k) # Field(k)
                  => /\ node = NodeOf(k)
                     /\ k \in completed'
                     /\ run' # "raised"
                     /\ \A j \in Stages \ {k} : FieldAfter(j) = Field(j)
        /\ run' = "raised" => UNCHANGED stateVars ]_vars

\* step 3 ended in an error with the work of steps 1 and 2 in place
C28_Witness ==
    /\ run = "raised" /\ node = STEP_3 /\ genCalls = MAX_LLM_RETRIES
    /\ Populated(1) /\ Populated(2) /\ ~Populated(3) /\ ~Populated(4)

\* C31: with external calls that always return or raise, every run ends,
\* returned or raised; a run calls the search at most once and the model
\* at most 12 times, 3 per stage; a run whose every call was answered
\* with usable data made exactly 4 model calls.
C31_TerminatesWithinBudget ==
    /\ <>(run # "running")
    /\ [](/\ searchCalls <= 1
          /\ genCalls <= MAX_LLM_RETRIES
          /\ totalGenCalls <= 4 * MAX_LLM_RETRIES
          /\ (run = "returned" /\ clean) => totalGenCalls = 4)

\* a run that ended in the error of step 4 after its twelfth model call
C31_Witness ==
    /\ run = "raised" /\ node = STEP_4
    /\ totalGenCalls = 4 * MAX_LLM_RETRIES /\ searchCalls = 1

\* C32: a portfolio_plan built by the step 2 fallback names only companies
\* that research_results holds; so a step 3 fallback in the same run has a
\* section with an explanation for each of them, and a step 4 fallback
\* shows for each the risk_factor of its research entry, not the default.
C32_FallbackNamesResearched ==
    2 \in fallbackUsed =>
        LET companies == Val(portfolio_plan).companies
            research == Val(research_results)
        IN  /\ \A i \in 1..Len(companies) :
                  Hits(research, companies[i].company_name) # {}
            /\ 3 \in fallbackUsed =>
                  LET sections == SelectSeq(Val(investment_rationale), NamesCompany) IN
                  /\ Len(sections) = Len(companies)
                  /\ \A i \in 1..Len(companies) :
                        /\ sections[i].company_name = companies[i].company_name
                        /\ "explanation" \in DOMAIN sections[i]
            /\ 4 \in fallbackUsed =>
                  LET rows == SelectSeq(Val(investment_plan), IsRow) IN
                  /\ Len(rows) = Len(companies)
                  /\ \A i \in 1..Len(companies) :
                        rows[i].risk_level =
                            research[FirstHit(research, companies[i].company_name)].risk_factor

\* a run that returned through the fallbacks of steps 2, 3 and 4 with a
\* low-risk and a high-risk company in its table
C32_Witness ==
    /\ run = "returned" /\ fallbackUsed = {2, 3, 4}
    /\ Len(Val(portfolio_plan).companies) >= 2
    /\ \E i, j \in 1..Len(Val(research_results)) :
          /\ i <= Len(Val(portfolio_plan).companies)
          /\ j <= Len(Val(portfolio_plan).companies)
          /\ Val(research_results)[i].risk_factor = "Low"
          /\ Val(research_results)[j].risk_factor = "High"

\* C33: every row of the step 4 fallback table shows the company's own
\* holding_period when it has one and "6-12 months" when it has none.
C33_HoldingPeriodShown ==
    4 \in fallbackUsed =>
        LET rows == SelectSeq(Val(investment_plan), IsRow)
            companies == Val(portfolio_plan).companies
        IN  /\ Len(rows) = Len(companies)
            /\ \A i \in 1..Len(companies) :
                  rows[i].holding_period =
                      IF IsNone(companies[i].holding_period)
                      THEN Some("6-12 months")
                      ELSE companies[i].holding_period

====
